---- MODULE Spec2Model ----
(***************************************************************************)
(* Payment Link Service (second-state/payment-link).                       *)
(*                                                                         *)
(* The ledger is the SQLite table `payments` of database.py, the requests  *)
(* are the FastAPI handlers of main.py.  A pay request is a coroutine: it  *)
(* yields at every await (the ledger read, verify, settle, the ledger      *)
(* write), so several pay requests interleave at those points.  The x402   *)
(* PaymentService (parse / verify / settle / response) is an external      *)
(* collaborator: each of its calls returns any value of its result type or *)
(* raises.  Every call of the handler is a step of its own; the calls      *)
(* between two awaits read and write only the request's locals, so the     *)
(* finer steps add no interleaving on the ledger.                          *)
(***************************************************************************)
EXTENDS Integers, Sequences, FiniteSets, TLC

\* ------------------------------------------------------------------ bounds
NumIds == 2        \* size of the identifier space uuid4 draws from
NumRuns == 2       \* pay requests in flight at the same time

Ids == 1..NumIds
Runs == 1..NumRuns

\* ------------------------------------------------------------------ values
\* Python's None / SQL NULL.  Every real string differs from it.
None == "None"

\* Query inputs of /create-payment-link.  A query parameter is optional:
\* <<>> when the request does not carry it, <<v>> when it does.
Amounts == {-1, 0, 1, 2}
Receivers == {"", "0xR"}
Opt(S) == {<<>>} \cup {<<v>> : v \in S}

\* Transaction hashes the collaborator's settle can return.
TxHashes == {None, "", "0xa", "0xb"}

\* Error texts the collaborator can return.
Errors == {None, "err"}

\* settings.app_base_url
app_base_url == "http://localhost:8000"

\* Python truthiness of an optional string: None and "" are falsy.
Truthy(s) == s # None /\ s # ""

\* Python `a or b` on optional strings.
OrElse(a, b) == IF Truthy(a) THEN a ELSE b

\* ------------------------------------------------------------------ ledger
\* A row of the payments table (the timestamps are not modelled).
Row(payment_id, amount, receiver, status, tx_hash) ==
    [payment_id |-> payment_id, amount |-> amount, receiver |-> receiver,
     status |-> status, tx_hash |-> tx_hash]

\* The table after init_db: no rows.  A table is a function from the primary
\* keys present to their rows.
init_db == [i \in {} |-> Row(i, 1, "", "pending", None)]

\* Mutant of PrimaryKeyViolated: INSERT OR REPLACE, the key is never refused.
PrimaryKeyViolated_Replace(d, payment_id) == FALSE

\* payment_id TEXT PRIMARY KEY: an INSERT of a key that exists raises
\* sqlite3.IntegrityError and inserts nothing.
PrimaryKeyViolated(d, payment_id) == payment_id \in DOMAIN d

\* create_payment: the table after a successful INSERT + commit.
create_payment(d, payment_id, amount, receiver) ==
    [i \in DOMAIN d \cup {payment_id} |->
        IF i = payment_id
        THEN Row(payment_id, amount, receiver, "pending", None)
        ELSE d[i]]

\* get_payment: the row as an optional value, <<>> for Python's None.
get_payment(d, payment_id) ==
    IF payment_id \in DOMAIN d THEN <<d[payment_id]>> ELSE <<>>

\* Mutant of update_payment_status: a write without a hash records the
\* payment as failed.
update_payment_status_FailNoHash(d, payment_id, status, tx_hash) ==
    IF payment_id \notin DOMAIN d THEN d
    ELSE IF Truthy(tx_hash)
         THEN [d EXCEPT ![payment_id].status = status,
                        ![payment_id].tx_hash = tx_hash]
         ELSE [d EXCEPT ![payment_id].status = "failed"]

\* update_payment_status: UPDATE ... WHERE payment_id = ?  An UPDATE that
\* matches no row changes nothing and raises nothing.
update_payment_status(d, payment_id, status, tx_hash) ==
    IF payment_id \notin DOMAIN d THEN d
    ELSE IF Truthy(tx_hash)
         THEN [d EXCEPT ![payment_id].status = status,
                        ![payment_id].tx_hash = tx_hash]
         ELSE [d EXCEPT ![payment_id].status = status]

\* ------------------------------------------------------------------ state
VARIABLES
    db,           \* the payments table
    available,    \* PaymentService is not None (the import succeeded)
    pc,           \* per pay request: where the coroutine stands
    rid,          \* per pay request: payment_id
    rec,          \* per pay request: payment_record, <<>> or <<row>>
    proof,        \* per pay request: <<payment, selected_requirements>> of parse
    tx,           \* per pay request: tx_hash returned by settle
    resp,         \* per pay request: the response, once pc = "done"
    steps,        \* per pay request: the calls made so far, with their outcome
    startRef      \* per pay request: <<T>> when the record was Paid with
                  \*   reference T at the moment the request arrived

vars == <<db, available, pc, rid, rec, proof, tx, resp, steps, startRef>>

runVars == <<pc, rid, rec, proof, tx, resp, steps, startRef>>

\* ------------------------------------------------------------------ responses
NoResp == [kind |-> "none", tx |-> None, error |-> None]

\* JSONResponse(content={"status": "paid", "tx": t}), a 200
PaidResp(t) == [kind |-> "paid", tx |-> t, error |-> None]

\* JSONResponse(status_code=404, content={"error": "Payment not found"})
NotFoundResp == [kind |-> "not_found", tx |-> None, error |-> "Payment not found"]

\* Mutant of InternalResp: the fault is answered as a payment-required
\* challenge.
InternalResp_AsChallenge(msg) == [kind |-> "challenge", tx |-> None, error |-> msg]

\* JSONResponse(status_code=500, content={"error": ...})
InternalResp(msg) == [kind |-> "internal", tx |-> None, error |-> msg]

\* Mutant of global_exception_handler: the handler is not registered and an
\* exception of the handler produces none of the service's responses.
global_exception_handler_Missing(exc) == NoResp

\* global_exception_handler: an exception that leaves a handler becomes a 500.
global_exception_handler(exc) == InternalResp(exc)

\* create_x402_response: the collaborator's response(error) renders the
\* challenge, as HTML or JSON, with the status code it chooses.
create_x402_response(error) == [kind |-> "challenge", tx |-> None, error |-> error]

\* The status codes a response can carry.  The code of a challenge is the
\* collaborator's: 402, or 400 for a browser.
StatusCodes(response) ==
    CASE response.kind = "paid" -> {200}
      [] response.kind = "not_found" -> {404}
      [] response.kind = "internal" -> {500}
      [] response.kind = "challenge" -> {402, 400}
      [] OTHER -> {}

Init ==
    /\ db = init_db
    /\ available \in BOOLEAN
    /\ pc = [r \in Runs |-> "idle"]
    /\ rid = [r \in Runs |-> 1]
    /\ rec = [r \in Runs |-> <<>>]
    /\ proof = [r \in Runs |-> <<>>]
    /\ tx = [r \in Runs |-> None]
    /\ resp = [r \in Runs |-> NoResp]
    /\ steps = [r \in Runs |-> <<>>]
    /\ startRef = [r \in Runs |-> <<>>]

\* Mutant of QueryValid: amount is declared ge=0.
QueryValid_Ge(amountQ, receiverQ) ==
    /\ amountQ # <<>>
    /\ amountQ[1] >= 0
    /\ receiverQ # <<>>

\* ------------------------------------------------------------------ issuance
\* The Query(...) declarations of create_payment_link: both parameters are
\* required, amount must be > 0; nothing constrains the receiver's text.
QueryValid(amountQ, receiverQ) ==
    /\ amountQ # <<>>
    /\ amountQ[1] > 0
    /\ receiverQ # <<>>

\* f"{settings.app_base_url}/pay/{payment_id}"
payment_url(payment_id) == <<app_base_url, "/pay/", payment_id>>

\* str(amount): the text of the float, which names the amount.
StrOfAmount(amount) == <<"str", amount>>

\* The store call of create_payment_link raises: the store is unavailable
\* (fault) or the INSERT violates the primary key.
IssueRaises(d, uid, fault) == fault \/ PrimaryKeyViolated(d, uid)

\* The response of GET /create-payment-link on table d: FastAPI's 422, the
\* 500 of a store call that raised, or the 200 with the link.
IssueResponse(d, amountQ, receiverQ, uid, fault) ==
    IF ~QueryValid(amountQ, receiverQ)
    THEN [code |-> 422]
    ELSE IF IssueRaises(d, uid, fault)
    THEN [code |-> 500]
    ELSE [code |-> 200, payment_id |-> uid, payment_url |-> payment_url(uid),
          amount |-> StrOfAmount(amountQ[1]), receiver |-> receiverQ[1]]

\* GET /create-payment-link.  uid is the value uuid.uuid4() draws; fault says
\* that the store call raises for a reason of its own.
create_payment_link(amountQ, receiverQ, uid, fault) ==
    /\ db' = IF QueryValid(amountQ, receiverQ) /\ ~IssueRaises(db, uid, fault)
             THEN create_payment(db, uid, amountQ[1], receiverQ[1])
             ELSE db
    /\ UNCHANGED <<available, runVars>>

\* ------------------------------------------------------------------ status
\* Mutant of StatusResponse: paid is read off the presence of a hash.
StatusResponse_PaidFromHash(d, payment_id, fault) ==
    LET payment_record == get_payment(d, payment_id) IN
    IF fault THEN [code |-> 500]
    ELSE IF payment_record = <<>> THEN [code |-> 404]
    ELSE [code |-> 200, payment_id |-> payment_id,
          amount |-> payment_record[1].amount,
          paid |-> (payment_record[1].tx_hash # None),
          tx |-> payment_record[1].tx_hash]

\* The response of GET /status/{payment_id} on table d.
StatusResponse(d, payment_id, fault) ==
    LET payment_record == get_payment(d, payment_id) IN
    IF fault THEN [code |-> 500]
    ELSE IF payment_record = <<>> THEN [code |-> 404]
    ELSE [code |-> 200, payment_id |-> payment_id,
          amount |-> payment_record[1].amount,
          paid |-> (payment_record[1].status = "paid"),
          tx |-> payment_record[1].tx_hash]

\* GET /status/{payment_id}: a read, nothing is written.
get_payment_status(payment_id, fault) ==
    /\ StatusResponse(db, payment_id, fault).code \in {200, 404, 500}
    /\ UNCHANGED vars

\* ------------------------------------------------------------------ pay
\* One call of a pay request (the ledger read "get", the constructor "init",
\* "parse", "verify", "settle", the ledger write "write") and how it ended:
\* "ok", "challenge" or "fault" (it raised).
Step(name, outcome) == <<name, outcome>>

\* The calls of pay, in the order of the handler's text.
StepOrder == <<"get", "init", "parse", "verify", "settle", "write">>

\* The request's call `name` ended with `outcome`.
Did(r, name, outcome) ==
    \E i \in 1..Len(steps[r]) : steps[r][i] = Step(name, outcome)

\* The request answers.
Respond(r, response) ==
    /\ pc' = [pc EXCEPT ![r] = "done"]
    /\ resp' = [resp EXCEPT ![r] = response]

\* The reference a Paid record stores, as an optional value.
StoredRef(d, payment_id) ==
    IF payment_id \in DOMAIN d /\ d[payment_id].status = "paid"
    THEN <<d[payment_id].tx_hash>> ELSE <<>>

\* Line 139: the request arrives and pay(payment_id, request) is entered; the
\* coroutine then waits for the ledger read.
PayStart(r, payment_id) ==
    /\ pc[r] = "idle"
    /\ pc' = [pc EXCEPT ![r] = "lookup"]
    /\ rid' = [rid EXCEPT ![r] = payment_id]
    /\ startRef' = [startRef EXCEPT ![r] = StoredRef(db, payment_id)]
    /\ UNCHANGED <<db, available, rec, proof, tx, resp, steps>>

\* Mutant of Gate: the check that PaymentService was imported comes first.
Gate_AvailabilityFirst(payment_record, service_available) ==
    IF ~service_available
    THEN <<InternalResp("x402_payment_service not installed")>>
    ELSE IF payment_record = <<>> THEN <<NotFoundResp>>
    ELSE IF payment_record[1].status = "paid"
    THEN <<PaidResp(payment_record[1].tx_hash)>>
    ELSE <<>>

\* Mutant of Gate: the Paid short-circuit comes after the check that
\* PaymentService was imported.
Gate_PaidCheckLast(payment_record, service_available) ==
    IF payment_record = <<>> THEN <<NotFoundResp>>
    ELSE IF ~service_available
    THEN <<InternalResp("x402_payment_service not installed")>>
    ELSE IF payment_record[1].status = "paid"
    THEN <<PaidResp(payment_record[1].tx_hash)>>
    ELSE <<>>

\* Lines 155-181: after the read, the not-found check, the Paid
\* short-circuit and the check that PaymentService was imported.  <<>> when
\* the request goes on to the handshake.
Gate(payment_record, service_available) ==
    IF payment_record = <<>> THEN <<NotFoundResp>>
    ELSE IF payment_record[1].status = "paid"
    THEN <<PaidResp(payment_record[1].tx_hash)>>
    ELSE IF ~service_available
    THEN <<InternalResp("x402_payment_service not installed")>>
    ELSE <<>>

\* Lines 152-181: the ledger read (which raises when the store is
\* unavailable), then the gate.
PayLookup(r, fault) ==
    /\ pc[r] = "lookup"
    /\ LET payment_record == get_payment(db, rid[r])
           gate == Gate(payment_record, available) IN
       IF fault
       THEN /\ Respond(r, global_exception_handler("get_payment"))
            /\ steps' = [steps EXCEPT ![r] = Append(@, Step("get", "fault"))]
            /\ rec' = rec
       ELSE /\ rec' = [rec EXCEPT ![r] = payment_record]
            /\ steps' = [steps EXCEPT ![r] = Append(@, Step("get", "ok"))]
            /\ IF gate # <<>>
               THEN Respond(r, gate[1])
               ELSE /\ pc' = [pc EXCEPT ![r] = "init"]
                    /\ resp' = resp
    /\ UNCHANGED <<db, available, rid, proof, tx, startRef>>

\* Lines 183-201: PaymentService(...) either constructs or raises.
PayInit(r, raises) ==
    /\ pc[r] = "init"
    /\ IF raises
       THEN /\ Respond(r, InternalResp("Failed to initialize payment service"))
            /\ steps' = [steps EXCEPT ![r] = Append(@, Step("init", "fault"))]
       ELSE /\ pc' = [pc EXCEPT ![r] = "parse"]
            /\ resp' = resp
            /\ steps' = [steps EXCEPT ![r] = Append(@, Step("init", "ok"))]
    /\ UNCHANGED <<db, available, rid, rec, proof, tx, startRef>>

\* Mutant of ParseChallenge: the check of lines 216-217 is missing.
ParseChallenge_NoNoneCheck(success, payment, selected_requirements, parse_error) ==
    IF ~success \/ parse_error # None
    THEN <<OrElse(parse_error, "Payment required")>>
    ELSE <<>>

\* Lines 212-217: what of parse's result sends the request to a challenge.
\* <<>> when the result lets the request go on to verify.
ParseChallenge(success, payment, selected_requirements, parse_error) ==
    IF ~success \/ parse_error # None
    THEN <<OrElse(parse_error, "Payment required")>>
    ELSE IF payment = None \/ selected_requirements = None
    THEN <<"Invalid payment data">>
    ELSE <<>>

\* Lines 203-217: payment_service.parse() raises or returns
\* (success, payment, selected_requirements, parse_error).
PayParse(r, raises, success, payment, selected_requirements, parse_error) ==
    /\ pc[r] = "parse"
    /\ LET ch == ParseChallenge(success, payment, selected_requirements,
                                parse_error) IN
       IF raises
       THEN /\ Respond(r, InternalResp("Failed to parse payment"))
            /\ steps' = [steps EXCEPT ![r] = Append(@, Step("parse", "fault"))]
            /\ proof' = proof
       ELSE IF ch # <<>>
       THEN /\ Respond(r, create_x402_response(ch[1]))
            /\ steps' = [steps EXCEPT ![r] = Append(@, Step("parse", "challenge"))]
            /\ proof' = proof
       ELSE /\ pc' = [pc EXCEPT ![r] = "verify"]
            /\ resp' = resp
            /\ steps' = [steps EXCEPT ![r] = Append(@, Step("parse", "ok"))]
            /\ proof' = [proof EXCEPT ![r] = <<payment, selected_requirements>>]
    /\ UNCHANGED <<db, available, rid, rec, tx, startRef>>

\* Lines 230-233: what of verify's result sends the request to a challenge.
VerifyChallenge(is_valid, verify_error) ==
    IF ~is_valid
    THEN <<OrElse(verify_error, "Payment verification failed")>>
    ELSE <<>>

\* Lines 219-233: payment_service.verify(...) raises or returns
\* (is_valid, verify_error).
PayVerify(r, raises, is_valid, verify_error) ==
    /\ pc[r] = "verify"
    /\ LET ch == VerifyChallenge(is_valid, verify_error) IN
       IF raises
       THEN /\ Respond(r, InternalResp("Failed to verify payment"))
            /\ steps' = [steps EXCEPT ![r] = Append(@, Step("verify", "fault"))]
       ELSE IF ch # <<>>
       THEN /\ Respond(r, create_x402_response(ch[1]))
            /\ steps' = [steps EXCEPT ![r] = Append(@, Step("verify", "challenge"))]
       ELSE /\ pc' = [pc EXCEPT ![r] = "settle"]
            /\ resp' = resp
            /\ steps' = [steps EXCEPT ![r] = Append(@, Step("verify", "ok"))]
    /\ UNCHANGED <<db, available, rid, rec, proof, tx, startRef>>

\* Lines 249-252: what of settle's result sends the request to a challenge.
SettleChallenge(settle_success, settle_error) ==
    IF ~settle_success
    THEN <<OrElse(settle_error, "Payment settlement failed")>>
    ELSE <<>>

\* Mutant of PaySettle: a refused settlement is persisted as failed.
PaySettle_PersistFailed(r, raises, settle_success, tx_hash, settle_error) ==
    /\ pc[r] = "settle"
    /\ LET ch == SettleChallenge(settle_success, settle_error) IN
       IF raises
       THEN /\ Respond(r, InternalResp("Failed to settle payment"))
            /\ steps' = [steps EXCEPT ![r] = Append(@, Step("settle", "fault"))]
            /\ UNCHANGED <<tx, db>>
       ELSE IF ch # <<>>
       THEN /\ Respond(r, create_x402_response(ch[1]))
            /\ steps' = [steps EXCEPT ![r] = Append(@, Step("settle", "challenge"))]
            /\ tx' = tx
            /\ db' = update_payment_status(db, rid[r], "failed", None)
       ELSE /\ pc' = [pc EXCEPT ![r] = "write"]
            /\ resp' = resp
            /\ steps' = [steps EXCEPT ![r] = Append(@, Step("settle", "ok"))]
            /\ tx' = [tx EXCEPT ![r] = tx_hash]
            /\ db' = db
    /\ UNCHANGED <<available, rid, rec, proof, startRef>>

\* Lines 235-252: payment_service.settle(...) raises or returns
\* (settle_success, tx_hash, tx_network, settle_error); tx_network is not read.
PaySettle(r, raises, settle_success, tx_hash, settle_error) ==
    /\ pc[r] = "settle"
    /\ LET ch == SettleChallenge(settle_success, settle_error) IN
       IF raises
       THEN /\ Respond(r, InternalResp("Failed to settle payment"))
            /\ steps' = [steps EXCEPT ![r] = Append(@, Step("settle", "fault"))]
            /\ tx' = tx
       ELSE IF ch # <<>>
       THEN /\ Respond(r, create_x402_response(ch[1]))
            /\ steps' = [steps EXCEPT ![r] = Append(@, Step("settle", "challenge"))]
            /\ tx' = tx
       ELSE /\ pc' = [pc EXCEPT ![r] = "write"]
            /\ resp' = resp
            /\ steps' = [steps EXCEPT ![r] = Append(@, Step("settle", "ok"))]
            /\ tx' = [tx EXCEPT ![r] = tx_hash]
    /\ UNCHANGED <<db, available, rid, rec, proof, startRef>>

\* Mutant of PayPersist: the 200 response is returned without the write.
PayPersist_NoWrite(r, fault) ==
    /\ pc[r] = "write"
    /\ db' = db
    /\ Respond(r, PaidResp(tx[r]))
    /\ steps' = [steps EXCEPT ![r] = Append(@, Step("write", "ok"))]
    /\ UNCHANGED <<available, rid, rec, proof, tx, startRef>>

\* Lines 254-262: the ledger write, then the 200.  A store call that raises
\* commits nothing and leaves the handler as an exception.
PayPersist(r, fault) ==
    /\ pc[r] = "write"
    /\ IF fault
       THEN /\ Respond(r, global_exception_handler("update_payment_status"))
            /\ steps' = [steps EXCEPT ![r] = Append(@, Step("write", "fault"))]
            /\ db' = db
       ELSE /\ db' = update_payment_status(db, rid[r], "paid", tx[r])
            /\ Respond(r, PaidResp(tx[r]))
            /\ steps' = [steps EXCEPT ![r] = Append(@, Step("write", "ok"))]
    /\ UNCHANGED <<available, rid, rec, proof, tx, startRef>>

\* The response has been sent; the worker takes the next pay request.
PayDone(r) ==
    /\ pc[r] = "done"
    /\ pc' = [pc EXCEPT ![r] = "idle"]
    /\ rid' = [rid EXCEPT ![r] = 1]
    /\ rec' = [rec EXCEPT ![r] = <<>>]
    /\ proof' = [proof EXCEPT ![r] = <<>>]
    /\ tx' = [tx EXCEPT ![r] = None]
    /\ resp' = [resp EXCEPT ![r] = NoResp]
    /\ steps' = [steps EXCEPT ![r] = <<>>]
    /\ startRef' = [startRef EXCEPT ![r] = <<>>]
    /\ UNCHANGED <<db, available>>

\* ------------------------------------------------------------------ systems
\* The /create-payment-link requests with amounts from A and receivers from R.
Issue(A, R) ==
    \E aq \in Opt(A), rq \in Opt(R), uid \in Ids, fault \in BOOLEAN :
        create_payment_link(aq, rq, uid, fault)

Status == \E i \in Ids, fault \in BOOLEAN : get_payment_status(i, fault)

\* The steps of the pay requests of the workers in W.
Pay(W) ==
    \/ \E r \in W, i \in Ids : PayStart(r, i)
    \/ \E r \in W, fault \in BOOLEAN : PayLookup(r, fault)
    \/ \E r \in W, raises \in BOOLEAN : PayInit(r, raises)
    \/ \E r \in W, raises \in BOOLEAN, success \in BOOLEAN,
          payment \in {None, "payment"}, req \in {None, "requirements"},
          parse_error \in Errors :
          PayParse(r, raises, success, payment, req, parse_error)
    \/ \E r \in W, raises \in BOOLEAN, is_valid \in BOOLEAN,
          verify_error \in Errors :
          PayVerify(r, raises, is_valid, verify_error)
    \/ \E r \in W, raises \in BOOLEAN, settle_success \in BOOLEAN,
          tx_hash \in TxHashes, settle_error \in Errors :
          PaySettle(r, raises, settle_success, tx_hash, settle_error)
    \/ \E r \in W, fault \in BOOLEAN : PayPersist(r, fault)
    \/ \E r \in W : PayDone(r)

\* Concurrent pay requests over links of one shape.
Next ==
    \/ Issue({0, 1}, {"0xR"})
    \/ Status
    \/ Pay(Runs)

Spec == Init /\ [][Next]_vars

\* One pay request at a time, links of every shape.
NextApi ==
    \/ Issue(Amounts, Receivers)
    \/ Status
    \/ Pay({1})

SpecApi == Init /\ [][NextApi]_vars

\* A step of the pay request worker r is running.  The event loop resumes a
\* coroutine whose awaited call has returned or raised; the awaited calls
\* are taken to return or raise (PaymentService is given
\* settings.max_timeout_seconds, sqlite its busy timeout).
Running(r) ==
    /\ pc[r] \notin {"idle", "done"}
    /\ Pay({r})

\* Spec with the event loop's scheduling: a pay request that can take a step
\* takes one.  Nothing obliges a client to send a request.
SpecLive == Init /\ [][Next]_vars /\ \A r \in Runs : WF_vars(Running(r))

\* The process is stopped and started again: the requests in flight are
\* gone, the import of PaymentService is tried anew (lines 21-24) and init_db
\* (CREATE TABLE IF NOT EXISTS) finds the rows of the database file.
Restart ==
    /\ available' \in BOOLEAN
    /\ pc' = [r \in Runs |-> "idle"]
    /\ rid' = [r \in Runs |-> 1]
    /\ rec' = [r \in Runs |-> <<>>]
    /\ proof' = [r \in Runs |-> <<>>]
    /\ tx' = [r \in Runs |-> None]
    /\ resp' = [r \in Runs |-> NoResp]
    /\ steps' = [r \in Runs |-> <<>>]
    /\ startRef' = [r \in Runs |-> <<>>]
    /\ db' = db

NextRestart ==
    \/ Next
    \/ Restart

\* Spec over several lives of the process on one database file.
SpecRestart == Init /\ [][NextRestart]_vars

\* The ledger functions called directly, on any arguments of their types.
\* The status values are the three named by update_payment_status.
Statuses == {"pending", "paid", "failed"}

\* Mutant of CreateOutcome: INSERT OR IGNORE.
CreateOutcome_Ignore(d, payment_id, amount, receiver) ==
    [raises |-> None,
     table |-> IF payment_id \in DOMAIN d THEN d
               ELSE create_payment(d, payment_id, amount, receiver)]

\* What a call of create_payment does on table d: the exception it raises
\* (None when it returns) and the table it leaves.  The INSERT of a
\* payment_id the table holds violates the PRIMARY KEY and inserts nothing.
CreateOutcome(d, payment_id, amount, receiver) ==
    IF PrimaryKeyViolated(d, payment_id)
    THEN [raises |-> "IntegrityError", table |-> d]
    ELSE [raises |-> None,
          table |-> create_payment(d, payment_id, amount, receiver)]

\* What a call of update_payment_status does on table d.  The function has
\* no raise and does not look at the number of rows the UPDATE matched.
UpdateOutcome(d, payment_id, status, tx_hash) ==
    [raises |-> None,
     table |-> update_payment_status(d, payment_id, status, tx_hash)]

StoreCreate(payment_id, amount, receiver) ==
    /\ db' = CreateOutcome(db, payment_id, amount, receiver).table
    /\ UNCHANGED <<available, runVars>>

StoreUpdate(payment_id, status, tx_hash) ==
    /\ db' = UpdateOutcome(db, payment_id, status, tx_hash).table
    /\ UNCHANGED <<available, runVars>>

NextStore ==
    \/ \E i \in Ids, a \in Amounts, rc \in Receivers : StoreCreate(i, a, rc)
    \/ \E i \in Ids, st \in Statuses, t \in TxHashes : StoreUpdate(i, st, t)

\* The ledger alone, under every sequence of calls of its two writers.
SpecStore == Init /\ [][NextStore]_vars

\* ------------------------------------------------------------------ claims

\* C1: once a record is Paid with reference T, a pay request for its id that
\* arrives afterwards and reads the ledger answers 200 paid with that same T,
\* having called neither the constructor, parse, verify nor settle.
C1_PayIdempotent ==
    \A r \in Runs :
        (pc[r] = "done" /\ startRef[r] # <<>> /\ startRef[r][1] # None
            /\ Did(r, "get", "ok"))
        => /\ resp[r] = PaidResp(startRef[r][1])
           /\ steps[r] = <<Step("get", "ok")>>

\* C2: in every reachable ledger, a record has a transaction reference if and
\* only if its status is paid.
C2_RefIffPaid ==
    \A i \in DOMAIN db : (db[i].tx_hash # None) <=> (db[i].status = "paid")

\* C3: for one payment id, settle never succeeds in two pay requests: no two
\* requests for the same id have both had their settle call succeed.
C3_SettleOnce ==
    \A r, q \in Runs :
        (r # q /\ Did(r, "settle", "ok") /\ Did(q, "settle", "ok"))
        => rid[r] # rid[q]

\* C4: first settlement wins: no step replaces the transaction reference a
\* Paid record already stores.
C4_FirstRefKept ==
    [][\A i \in DOMAIN db :
          (db[i].status = "paid" /\ db[i].tx_hash # None)
          => (i \in DOMAIN db' /\ db'[i].tx_hash = db[i].tx_hash)]_vars

\* C5: every step keeps each record's status or takes it from pending to
\* paid or from pending to failed; a paid record stays paid.
C5_StatusMonotonic ==
    [][\A i \in DOMAIN db :
          /\ i \in DOMAIN db'
          /\ db'[i].status # db[i].status
             => (db[i].status = "pending" /\ db'[i].status \in {"paid", "failed"})
          /\ db[i].status = "paid" => db'[i].status = "paid"]_vars

\* C5 witness: two pay requests have both written the same record, the
\* second one when it was already paid, and it is paid.
C5_Witness ==
    \E r, q \in Runs :
        /\ r # q /\ rid[r] = rid[q]
        /\ Did(r, "write", "ok") /\ Did(q, "write", "ok")
        /\ db[rid[r]].status = "paid"

\* The step in which pay request r answers.
Answers(r) == pc[r] # "done" /\ pc'[r] = "done"

\* C6 as stated: when a pay request ends with a challenge, that step leaves
\* the ledger unchanged and the record is Pending.
C6_ChallengeStillPending ==
    [][\A r \in Runs :
          (Answers(r) /\ resp'[r].kind = "challenge")
          => /\ db' = db
             /\ db'[rid[r]].status = "pending"]_vars

\* C6 amended: a pay request that ends with a challenge had read a Pending
\* record and has written nothing to the ledger: the answering step leaves
\* the ledger unchanged, the request made no ledger write, and the record is
\* still exactly as the request read it unless it has been made Paid, which
\* only another pay request for the same id can have done.
C6_ChallengeFrame ==
    [][\A r \in Runs :
          (Answers(r) /\ resp'[r].kind = "challenge")
          => /\ db' = db
             /\ \A i \in 1..Len(steps'[r]) : steps'[r][i][1] # "write"
             /\ rec[r] # <<>> /\ rec[r][1].status = "pending"
             /\ rid[r] \in DOMAIN db'
             /\ \/ db'[rid[r]] = rec[r][1]
                \/ db'[rid[r]].status = "paid"]_vars

\* C6 witness: a pay request whose settlement was refused has answered with
\* a challenge, and its record is Pending.
C6_Witness ==
    \E r \in Runs :
        /\ pc[r] = "done" /\ resp[r].kind = "challenge"
        /\ Did(r, "settle", "challenge")
        /\ db[rid[r]].status = "pending"

\* C7: the calls of one pay request follow the handler's order, each at most
\* once and each only after the one before it ended "ok"; verify (and so
\* settle and the ledger write) is called only with a proof and a matched
\* requirement that are not None.
C7_StepOrder ==
    \A r \in Runs :
        LET n == Len(steps[r]) IN
        /\ n <= Len(StepOrder)
        /\ \A i \in 1..n :
              /\ steps[r][i][1] = StepOrder[i]
              /\ i < n => steps[r][i][2] = "ok"
        /\ n >= 4 => /\ proof[r] # <<>>
                     /\ proof[r][1] # None
                     /\ proof[r][2] # None

\* C7 witness: a pay request has made every call, down to the ledger write.
C7_Witness ==
    \E r \in Runs :
        /\ Len(steps[r]) = 6
        /\ \A i \in 1..6 : steps[r][i] = Step(StepOrder[i], "ok")

\* C8: a pay request whose last call raised answers with the internal-error
\* response, a 500 (not a challenge, not the 200), and that step leaves the
\* ledger unchanged; the request has made no ledger write.
C8_FaultIs500 ==
    [][\A r \in Runs :
          (Answers(r) /\ steps'[r][Len(steps'[r])][2] = "fault")
          => /\ resp'[r].kind = "internal"
             /\ StatusCodes(resp'[r]) = {500}
             /\ db' = db
             /\ \A i \in 1..Len(steps'[r]) :
                   steps'[r][i] # Step("write", "ok")]_vars

\* C8 witness: the ledger write of a pay request raised after its settlement
\* succeeded; the request answered 500 and the record is Pending.
C8_Witness ==
    \E r \in Runs :
        /\ pc[r] = "done" /\ Did(r, "write", "fault")
        /\ resp[r].kind = "internal"
        /\ db[rid[r]].status = "pending"

\* C9: an issuance with amount > 0 and a non-empty receiver that returns its
\* 200 returns an identifier that was no key of the ledger; afterwards the
\* ledger holds under it a Pending record without reference with the given
\* amount and receiver, every other record is unchanged, and the URL is
\* {baseUrl}/pay/{id}.
C9_Issuance ==
    [][\A aq \in Opt(Amounts), rq \in Opt(Receivers), uid \in Ids,
          fault \in BOOLEAN :
          LET response == IssueResponse(db, aq, rq, uid, fault) IN
          (/\ aq # <<>> /\ aq[1] > 0 /\ rq # <<>> /\ rq[1] # ""
           /\ response.code = 200
           /\ create_payment_link(aq, rq, uid, fault))
          => /\ response.payment_id \notin DOMAIN db
             /\ DOMAIN db' = DOMAIN db \cup {response.payment_id}
             /\ db'[response.payment_id] =
                    Row(response.payment_id, aq[1], rq[1], "pending", None)
             /\ \A i \in DOMAIN db : db'[i] = db[i]
             /\ response.payment_url =
                    <<app_base_url, "/pay/", response.payment_id>>]_vars

\* C9 witness: a link for amount 2 and receiver 0xR has been issued while
\* another record, already paid, was in the ledger.
C9_Witness ==
    \E i, j \in DOMAIN db :
        /\ i # j
        /\ db[i] = Row(i, 2, "0xR", "pending", None)
        /\ db[j].status = "paid"

\* C10: an issuance with amount <= 0 or an empty (or missing) receiver is
\* answered 422 and leaves the ledger as it was.
C10_InvalidIssuance ==
    [][\A aq \in Opt(Amounts), rq \in Opt(Receivers), uid \in Ids,
          fault \in BOOLEAN :
          (/\ (aq = <<>> \/ aq[1] <= 0 \/ rq = <<>> \/ rq[1] = "")
           /\ create_payment_link(aq, rq, uid, fault))
          => /\ IssueResponse(db, aq, rq, uid, fault).code = 422
             /\ db' = db]_vars

\* The step in which pay request r gets the ledger's answer to its read.
Reads(r) ==
    /\ pc[r] = "lookup" /\ pc'[r] # "lookup"
    /\ steps'[r] = <<Step("get", "ok")>>

\* C11: a pay request whose read finds no record under its id answers 404,
\* having called neither the constructor, parse, verify nor settle, and
\* leaves the ledger unchanged; a status query for an id that is not in the
\* ledger answers 404.
C11_UnknownId ==
    [][/\ \A r \in Runs :
            (Reads(r) /\ rid[r] \notin DOMAIN db)
            => /\ pc'[r] = "done"
               /\ resp'[r] = NotFoundResp
               /\ StatusCodes(resp'[r]) = {404}
               /\ db' = db
       /\ \A i \in Ids \ DOMAIN db : StatusResponse(db, i, FALSE).code = 404]_vars

\* C11 witness: a pay request for an id that is not in the ledger has
\* answered 404 while PaymentService is not installed.
C11_Witness ==
    \E r \in Runs :
        /\ pc[r] = "done" /\ rid[r] \notin DOMAIN db
        /\ resp[r] = NotFoundResp
        /\ steps[r] = <<Step("get", "ok")>>
        /\ ~available

\* C12: the status inquiry reports the ledger: for a Pending record
\* paid = false and no transaction reference, for a Paid record paid = true
\* and the reference the record stores; and no status inquiry can change
\* any variable.
C12_StatusReflectsLedger ==
    \A i \in DOMAIN db :
        LET response == StatusResponse(db, i, FALSE) IN
        /\ response.code = 200
        /\ response.payment_id = i
        /\ response.amount = db[i].amount
        /\ db[i].status = "pending" => (~response.paid /\ response.tx = None)
        /\ db[i].status = "paid" => (response.paid /\ response.tx = db[i].tx_hash)
        /\ \A fault \in BOOLEAN :
              ~ENABLED (get_payment_status(i, fault) /\ vars' # vars)

\* C12 witness: the ledger holds a Paid record with reference 0xa and a
\* Pending one; the inquiry reports paid with 0xa for the first.
C12_Witness ==
    \E i, j \in DOMAIN db :
        /\ db[i].status = "paid" /\ db[i].tx_hash = "0xa"
        /\ db[j].status = "pending"
        /\ StatusResponse(db, i, FALSE).paid
        /\ StatusResponse(db, i, FALSE).tx = "0xa"
        /\ ~StatusResponse(db, j, FALSE).paid

\* C13: update_payment_status on a payment_id the table does not hold fails
\* with a not-found error, rather than returning as if it had updated a row,
\* and leaves the table unchanged.
C13_UpdateAbsentFails ==
    \A i \in Ids \ DOMAIN db : \A st \in Statuses, t \in TxHashes :
        LET outcome == UpdateOutcome(db, i, st, t) IN
        /\ outcome.raises # None
        /\ outcome.table = db

\* C20: create_payment on a payment_id the table holds fails and leaves the
\* table as it was, status and transaction reference of the held record
\* included: a Paid record is never reset to Pending.
C20_CreateExistingFails ==
    \A i \in DOMAIN db : \A a \in Amounts, rc \in Receivers :
        LET outcome == CreateOutcome(db, i, a, rc) IN
        /\ outcome.raises # None
        /\ outcome.table = db
        /\ db[i].status = "paid" => outcome.table[i].status = "paid"
        /\ ~ENABLED (StoreCreate(i, a, rc) /\ db' # db)

\* C20 witness: the table holds a Paid record with reference 0xa, and a
\* create with its payment_id raises.
C20_Witness ==
    \E i \in DOMAIN db :
        /\ db[i].status = "paid" /\ db[i].tx_hash = "0xa"
        /\ CreateOutcome(db, i, 1, "0xR").raises = "IntegrityError"
        /\ CreateOutcome(db, i, 1, "0xR").table = db

\* C14: when a pay request returns 200 with reference T, its record is Paid
\* in the ledger at that moment; if the request settled, its ledger write has
\* been made; and if no other request has written the record since this
\* request read it, the reference the record stores is T.
C14_PersistBeforeRespond ==
    [][\A r \in Runs :
          (Answers(r) /\ resp'[r].kind = "paid")
          => /\ rid[r] \in DOMAIN db'
             /\ db'[rid[r]].status = "paid"
             /\ (\E k \in 1..Len(steps'[r]) : steps'[r][k] = Step("settle", "ok"))
                => /\ steps'[r][Len(steps'[r])] = Step("write", "ok")
                   /\ resp'[r].tx = tx[r]
             /\ (Truthy(resp'[r].tx) /\ db[rid[r]] = rec'[r][1])
                => db'[rid[r]].tx_hash = resp'[r].tx]_vars

\* C14 witness: a request that settled with 0xa has written and answered 200
\* with 0xa, and the record is Paid with 0xa.
C14_Witness ==
    \E r \in Runs :
        /\ rid[r] \in DOMAIN db
        /\ pc[r] = "done" /\ resp[r] = PaidResp("0xa")
        /\ Did(r, "settle", "ok") /\ Did(r, "write", "ok")
        /\ db[rid[r]].status = "paid" /\ db[rid[r]].tx_hash = "0xa"

\* C15: once the settle step of a pay request has succeeded for an id, the
\* record of that id becomes Paid: when the request that settled has taken
\* its last step and answered, the record is Paid in the ledger.
C15_SettledThenPaid ==
    \A r \in Runs :
        (pc[r] = "done" /\ Did(r, "settle", "ok"))
        => /\ rid[r] \in DOMAIN db
           /\ db[rid[r]].status = "paid"

\* C16: a record the ledger holds changes only in the write step of a pay
\* request for its id in which parse, verify and settle all succeeded, and
\* the change sets it Paid; a pay request makes at most one ledger write,
\* which is its last step.
C16_OnlySettledWrites ==
    [][/\ \A i \in DOMAIN db :
            (i \notin DOMAIN db' \/ db'[i] # db[i])
            => /\ i \in DOMAIN db'
               /\ db'[i].status = "paid"
               /\ \E r \in Runs :
                     /\ rid[r] = i
                     /\ pc[r] = "write" /\ pc'[r] = "done"
                     /\ Did(r, "parse", "ok")
                     /\ Did(r, "verify", "ok")
                     /\ Did(r, "settle", "ok")
       /\ \A r \in Runs :
            \A k \in 1..Len(steps'[r]) :
                steps'[r][k][1] = "write"
                => /\ k = Len(steps'[r])
                   /\ pc'[r] = "done"
                   /\ steps'[r][k - 1] = Step("settle", "ok")]_vars

\* C16 witness: a request that parsed, verified and settled has made its one
\* write, and the record it was for is Paid with the reference 0xb.
C16_Witness ==
    \E r \in Runs :
        /\ rid[r] \in DOMAIN db
        /\ pc[r] = "done"
        /\ Did(r, "parse", "ok") /\ Did(r, "verify", "ok")
        /\ Did(r, "settle", "ok")
        /\ steps[r][Len(steps[r])] = Step("write", "ok")
        /\ db[rid[r]].status = "paid" /\ db[rid[r]].tx_hash = "0xb"

\* C17: every step keeps every record the ledger holds, under the same id
\* and with the amount and the receiver it was issued with, and every record
\* has an amount greater than zero.
C17_RecordImmutable ==
    [][/\ \A i \in DOMAIN db :
            /\ i \in DOMAIN db'
            /\ db'[i].payment_id = db[i].payment_id
            /\ db'[i].amount = db[i].amount
            /\ db'[i].receiver = db[i].receiver
       /\ \A i \in DOMAIN db' :
            /\ db'[i].payment_id = i
            /\ db'[i].amount > 0]_vars

\* C17 witness: a record issued with amount 2 and receiver 0xR has been paid
\* and still has that amount and receiver.
C17_Witness ==
    \E i \in DOMAIN db :
        /\ db[i].status = "paid" /\ db[i].tx_hash = "0xb"
        /\ db[i].payment_id = i
        /\ db[i].amount = 2 /\ db[i].receiver = "0xR"

\* The four outcomes of a pay request.
Outcomes == {"paid", "challenge", "not_found", "internal"}

\* C18: every pay request that has been entered ends, and ends with exactly
\* one of the outcomes 200, payment-required challenge, 404 and 500: it has
\* no response while it runs and one response of these kinds when it is done.
C18_RunTerminates ==
    \A r \in Runs :
        /\ [](pc[r] \notin {"idle", "done"} => resp[r] = NoResp)
        /\ [](pc[r] = "done" => /\ resp[r].kind \in Outcomes
                                /\ StatusCodes(resp[r]) # {})
        /\ (pc[r] = "lookup") ~> (pc[r] = "done" /\ resp[r].kind \in Outcomes)

\* C18 witness: one request has ended with a 500 after its ledger write
\* raised while another, entered for the same id, is still running.
C18_Witness ==
    \E r, q \in Runs :
        /\ pc[r] = "done" /\ resp[r].kind = "internal"
        /\ Did(r, "write", "fault")
        /\ pc[q] = "settle" /\ rid[q] = rid[r]

\* C19: while PaymentService is not installed, a pay request whose read finds
\* a record that is not Paid answers 500 having called neither the
\* constructor, parse, verify nor settle and leaves the ledger unchanged,
\* and one whose read finds a Paid record answers 200 with the reference the
\* record stores.
C19_ServiceUnavailable ==
    [][\A r \in Runs :
          (Reads(r) /\ ~available /\ rid[r] \in DOMAIN db)
          => /\ pc'[r] = "done"
             /\ db' = db
             /\ IF db[rid[r]].status = "paid"
                THEN /\ resp'[r] = PaidResp(db[rid[r]].tx_hash)
                     /\ StatusCodes(resp'[r]) = {200}
                ELSE /\ resp'[r].kind = "internal"
                     /\ StatusCodes(resp'[r]) = {500}]_vars

\* C19 witness: PaymentService is not installed, one pay request has
\* answered 200 with the stored reference 0xa of a Paid record and another
\* has answered 500 on a Pending record after its read alone.
C19_Witness ==
    \E r, q \in Runs :
        /\ ~available
        /\ rid[r] \in DOMAIN db /\ rid[q] \in DOMAIN db
        /\ pc[r] = "done" /\ resp[r] = PaidResp("0xa")
        /\ db[rid[r]].status = "paid" /\ db[rid[r]].tx_hash = "0xa"
        /\ steps[r] = <<Step("get", "ok")>>
        /\ pc[q] = "done" /\ resp[q].kind = "internal"
        /\ db[rid[q]].status = "pending"
        /\ steps[q] = <<Step("get", "ok")>>

====
